---- MODULE Spec2Model ----
(***************************************************************************)
(* First order Hidden Markov Model (src/hmm.py, class HMM): supervised     *)
(* estimation of the emission and transition tables, the table lookups,    *)
(* the naive decoder and the Viterbi decoder with its backtrace.           *)
(*                                                                         *)
(* Python dictionaries are functions with a finite domain, deques and      *)
(* lists are sequences (1-based here, 0-based in the source), a            *)
(* (word, state) tuple is <<word, state>>.  A stored probability is the    *)
(* exact quotient [num, den] of the two integers the source divides; a     *)
(* Viterbi score is an exact rational kept in factored form, so that the   *)
(* products with the scaling constant stay within TLC's integers.          *)
(* Floating-point rounding is not modelled.  An exception is the string    *)
(* the handler leaves in "raised" ("none" when it returned).               *)
(***************************************************************************)
EXTENDS Integers, Sequences, FiniteSets, TLC

\* ------------------------------------------------------------------ bounds
\* Total number of tokens of a training file (main flow, training flow).
MaxCorpusTokens == 4
\* Total number of tokens of a training file in the train-twice flow.
MaxRetrainTokens == 2
\* Number of tokens of an inference sequence.
MaxSeqLen == 3

\* --------------------------------------------------------------- constants
UNKNOWN_TOKEN == "#UNK#"
smooth_k == 1
DefaultScaling == 100
\* The states list handed to HMM(states): START, STOP, then the tags.
ConstructorStates == <<"START", "STOP", "A", "B">>
end_states == SubSeq(ConstructorStates, 1, 2)
states == SubSeq(ConstructorStates, 3, Len(ConstructorStates))

Range(s) == {s[i] : i \in DOMAIN s}

\* ------------------------------------------------------------ dictionaries
EmptyDict == [k \in {} |-> 0]
Get(d, k, default) == IF k \in DOMAIN d THEN d[k] ELSE default
Put(d, k, v) == [x \in (DOMAIN d) \cup {k} |-> IF x = k THEN v ELSE d[x]]
\* if k not in d: d[k] = 0; d[k] += 1
Inc(d, k) == Put(d, k, Get(d, k, 0) + 1)

RECURSIVE SumOver(_, _)
SumOver(d, keys) ==
  IF keys = {} THEN 0
  ELSE LET k == CHOOSE x \in keys : TRUE
       IN  d[k] + SumOver(d, keys \ {k})
\* sum(d.values())
SumValues(d) == SumOver(d, DOMAIN d)

\* -------------------------------------------------- stored probabilities
Zero == [num |-> 0, den |-> 1]
One == [num |-> 1, den |-> 1]
RatEq(a, b) == a.num * b.den = b.num * a.den
RatGreater(a, b) == a.num * b.den > b.num * a.den
RatAdd(a, b) == [num |-> a.num * b.den + b.num * a.den, den |-> a.den * b.den]

RECURSIVE RatSumOver(_, _)
RatSumOver(d, keys) ==
  IF keys = {} THEN Zero
  ELSE LET k == CHOOSE x \in keys : TRUE
       IN  RatAdd(d[k], RatSumOver(d, keys \ {k}))

\* ------------------------------------------------------------------ state
VARIABLES
  emission_probs,     \* self.emission_probs
  transition_probs,   \* self.transition_probs
  training_words,     \* self.training_words
  transition_cnts,    \* self._transition_cnts
  pc,                 \* where the caller of the model stands
  observations,       \* the corpus the last train call read
  raised,             \* the exception the last call raised, or "none"
  sequence,           \* the sequence the last decoding call was given
  scaling_constant,   \* the scaling constant of the last viterbi call
  viterbi_graph,      \* the graph the last viterbi call built
  prediction,         \* the labelled sequence the last decoding call returned
  dp_call,            \* the arguments of the last direct _dp_helper call
  before              \* the corpus, outcome and tables before the second train call

model_vars == <<emission_probs, transition_probs, training_words, transition_cnts>>
decode_vars == <<sequence, scaling_constant, viterbi_graph, prediction, dp_call>>
vars == <<emission_probs, transition_probs, training_words, transition_cnts,
          pc, observations, raised, sequence, scaling_constant, viterbi_graph,
          prediction, dp_call, before>>

\* HMM.__init__, and a caller that has called nothing yet.
Init ==
  /\ emission_probs = EmptyDict
  /\ transition_probs = EmptyDict
  /\ training_words = EmptyDict
  /\ transition_cnts = EmptyDict
  /\ pc = "constructed"
  /\ observations = <<>>
  /\ raised = "none"
  /\ sequence = <<>>
  /\ scaling_constant = 0
  /\ viterbi_graph = EmptyDict
  /\ prediction = <<>>
  /\ dp_call = <<>>
  /\ before = <<>>

\* ----------------------------------------------------------- process_file
\* A file is the sequence of its sentences, a sentence the sequence of its
\* lines: <<word, state>> in a training file, the word in a test file.
ProcessFile(file, data_type) ==
  [j \in 1..Len(file) |->
     <<(<<"", end_states[1]>>)>>
     \o [i \in 1..Len(file[j]) |->
           IF data_type = "train" THEN file[j][i] ELSE <<file[j][i], "">>]
     \o <<(<<"", end_states[2]>>)>>]

\* _check_end_states: the exception it raises, or "none".
CheckEndStates(ws_deque) ==
  IF ws_deque[1][2] # end_states[1] THEN "Invalid starting state"
  ELSE IF ws_deque[Len(ws_deque)][2] # end_states[2] THEN "Invalid stopping state"
  ELSE "none"

\* ------------------------------------------------------ estimate_emission
CalculateEmissionMle(word_count, state_count, k) ==
  [num |-> word_count, den |-> state_count + k]

\* The body of the loop over the pairs of one deque.
EmissionStep(acc, pair) ==
  LET word == pair[1]
      state == pair[2]
  IN  IF acc.raised # "none" THEN acc
      ELSE IF state \in Range(end_states) THEN acc
      ELSE IF state \notin Range(states)
        THEN [acc EXCEPT !.raised = "Invalid state in data"]
      ELSE [acc EXCEPT !.training_words = Inc(@, word),
                       !.cnts[state] = Inc(@, word)]

RECURSIVE EmissionScanDeque(_, _, _)
EmissionScanDeque(acc, ws_deque, i) ==
  IF i > Len(ws_deque) THEN acc
  ELSE EmissionScanDeque(EmissionStep(acc, ws_deque[i]), ws_deque, i + 1)

RECURSIVE EmissionScan(_, _, _)
EmissionScan(acc, obs, j) ==
  IF j > Len(obs) \/ acc.raised # "none" THEN acc
  ELSE LET chk == CheckEndStates(obs[j])
       IN  IF chk # "none" THEN [acc EXCEPT !.raised = chk]
           ELSE EmissionScan(EmissionScanDeque(acc, obs[j], 1), obs, j + 1)

\* Mutant: the counts of the earlier train calls (the vocabulary's) are
\* carried into this call's counts.
EmissionRowCarried(emission_counts, k) ==
  LET carried == [word \in DOMAIN emission_counts |->
                    emission_counts[word] + Get(training_words, word, 0)]
      state_cnt == SumValues(carried)
      row == [word \in DOMAIN carried |->
                CalculateEmissionMle(carried[word], state_cnt, k)]
  IN  Put(row, UNKNOWN_TOKEN, CalculateEmissionMle(k, state_cnt, k))

\* One state's row of the table: the estimates of its words, then the
\* UNKNOWN_TOKEN entry written over whatever the row holds under that key.
EmissionRow(emission_counts, k) ==
  LET state_cnt == SumValues(emission_counts)
      row == [word \in DOMAIN emission_counts |->
                CalculateEmissionMle(emission_counts[word], state_cnt, k)]
  IN  Put(row, UNKNOWN_TOKEN, CalculateEmissionMle(k, state_cnt, k))

\* estimate_emission(observations, smooth_k): what it raised, self.training_words
\* as it leaves it, and the table it returns.
EstimateEmission(obs, k) ==
  LET start == [raised |-> "none",
                training_words |-> training_words,
                cnts |-> [s \in Range(states) |-> EmptyDict]]
      scan == EmissionScan(start, obs, 1)
  IN  [raised |-> scan.raised,
       training_words |-> scan.training_words,
       emission_probs |-> [s \in Range(states) |-> EmissionRow(scan.cnts[s], k)]]

\* get_emission_probability
GetEmissionProbability(state, word) ==
  IF word \notin DOMAIN training_words
    THEN emission_probs[state][UNKNOWN_TOKEN]
    ELSE Get(emission_probs[state], word, Zero)

\* ---------------------------------------------------- estimate_transition
\* Mutant: the emission estimate's smoothing applied to a transition.
CalculateTransitionMleSmoothed(next_state_cnt, state_cnt) ==
  [num |-> next_state_cnt, den |-> state_cnt + smooth_k]

CalculateTransitionMle(next_state_cnt, state_cnt) ==
  [num |-> next_state_cnt, den |-> state_cnt]

\* The body of the loop over the positions of one deque.
TransitionStep(acc, ws_deque, i) ==
  LET curr_state == ws_deque[i][2]
      prev_state == ws_deque[i - 1][2]
  IN  IF acc.raised # "none" THEN acc
      ELSE IF prev_state \notin DOMAIN acc.cnts
        THEN [acc EXCEPT !.raised = "KeyError"]
      ELSE [acc EXCEPT !.cnts[prev_state] = Inc(@, curr_state)]

RECURSIVE TransitionScanDeque(_, _, _)
TransitionScanDeque(acc, ws_deque, i) ==
  IF i > Len(ws_deque) THEN acc
  ELSE TransitionScanDeque(TransitionStep(acc, ws_deque, i), ws_deque, i + 1)

RECURSIVE TransitionScan(_, _, _)
TransitionScan(acc, obs, j) ==
  IF j > Len(obs) \/ acc.raised # "none" THEN acc
  ELSE LET chk == CheckEndStates(obs[j])
       IN  IF chk # "none" THEN [acc EXCEPT !.raised = chk]
           ELSE TransitionScan(TransitionScanDeque(acc, obs[j], 2), obs, j + 1)

TransitionRow(transition_counts) ==
  LET state_cnt == SumValues(transition_counts)
  IN  [next_state \in DOMAIN transition_counts |->
         CalculateTransitionMle(transition_counts[next_state], state_cnt)]

\* estimate_transition(observations): what it raised, the counts it stores
\* in self._transition_cnts, and the table it returns.
EstimateTransition(obs) ==
  LET sources == {end_states[1]} \cup Range(states)
      start == [raised |-> "none", cnts |-> [s \in sources |-> EmptyDict]]
      scan == TransitionScan(start, obs, 1)
  IN  [raised |-> scan.raised,
       transition_cnts |-> scan.cnts,
       transition_probs |-> [s \in sources |-> TransitionRow(scan.cnts[s])]]

\* get_transition_probability
GetTransitionProbability(state1, state2) ==
  Get(transition_probs[state1], state2, Zero)

\* ------------------------------------------------------------------ train
\* train(filename) on a file: estimate_emission, then estimate_transition,
\* each assigned to its field as it returns; an exception leaves the fields
\* written so far as they are.
TrainOn(file) ==
  LET obs == ProcessFile(file, "train")
      em == EstimateEmission(obs, smooth_k)
      tr == EstimateTransition(obs)
  IN  /\ observations' = obs
      /\ training_words' = em.training_words
      /\ IF em.raised # "none"
           THEN /\ raised' = em.raised
                /\ UNCHANGED <<emission_probs, transition_probs, transition_cnts>>
         ELSE IF tr.raised # "none"
           THEN /\ raised' = tr.raised
                /\ emission_probs' = em.emission_probs
                /\ UNCHANGED <<transition_probs, transition_cnts>>
         ELSE /\ raised' = "none"
              /\ emission_probs' = em.emission_probs
              /\ transition_probs' = tr.transition_probs
              /\ transition_cnts' = tr.transition_cnts

\* ------------------------------------------------------------ input files
\* The sentences of n lines over a set of lines.
Sentences(lines, n) == [1..n -> lines]

\* The file that holds the given lines in order, a blank line after line i
\* wherever cut[i]: one sentence or more, every sentence of one line or more.
RECURSIVE FileFrom(_, _, _, _, _)
FileFrom(lines, cut, i, sentence, file) ==
  IF i > Len(lines) THEN file
  ELSE LET s == Append(sentence, lines[i])
       IN  IF i = Len(lines) \/ cut[i]
             THEN FileFrom(lines, cut, i + 1, <<>>, Append(file, s))
           ELSE FileFrom(lines, cut, i + 1, s, file)
FileOf(lines, cut) == FileFrom(lines, cut, 1, <<>>, <<>>)

\* train on any file of at most n lines over the given set of lines.
TrainOnSomeFile(lineset, n) ==
  \E m \in 1..n : \E lines \in [1..m -> lineset] : \E cut \in [1..(m - 1) -> BOOLEAN] :
     TrainOn(FileOf(lines, cut))

\* Training lines: the declared tags, the literal unknown-token string as a
\* word, and labels that are no declared tag.
TagLines == {"x", UNKNOWN_TOKEN} \X Range(states)
OddLines == {"x"} \X {"START", "STOP", "Z"}

\* ------------------------------------------------- training specification
Train ==
  /\ pc = "constructed"
  /\ TrainOnSomeFile(TagLines \cup OddLines, MaxCorpusTokens)
  /\ pc' = IF raised' = "none" THEN "trained" ELSE "failed"
  /\ UNCHANGED <<decode_vars, before>>

NextTrain == Train

SpecTrain == Init /\ [][NextTrain]_vars

\* ------------------------------------------------ train-twice specification
\* Two train calls in succession on one instance, each on any file.
RetrainLines == ({"x", "y"} \X {"A"}) \cup {<<"x", "B">>, <<"x", "Z">>}

TrainFirst ==
  /\ pc = "constructed"
  /\ TrainOnSomeFile(RetrainLines, MaxRetrainTokens)
  /\ pc' = IF raised' = "none" THEN "trained" ELSE "failed"
  /\ UNCHANGED <<decode_vars, before>>

TrainAgain ==
  /\ pc \in {"trained", "failed"}
  /\ TrainOnSomeFile(RetrainLines, MaxRetrainTokens)
  /\ pc' = IF raised' = "none" THEN "retrained" ELSE "refailed"
  /\ before' = [observations |-> observations, raised |-> raised,
                emission_probs |-> emission_probs,
                transition_probs |-> transition_probs,
                training_words |-> training_words]
  /\ UNCHANGED decode_vars

NextRetrain == TrainFirst \/ TrainAgain

SpecRetrain == Init /\ [][NextRetrain]_vars

\* ----------------------------------------------------------- naive decoder
\* Mutant: the last of the maximal entries instead of the first.
RECURSIVE LastMaxEmissionFrom(_, _, _)
LastMaxEmissionFrom(nodes, i, best) ==
  IF i > Len(nodes) THEN best
  ELSE LastMaxEmissionFrom(nodes, i + 1,
         IF RatGreater(best[2], nodes[i][2]) THEN best ELSE nodes[i])
LastMaxEmission(nodes) == LastMaxEmissionFrom(nodes, 2, nodes[1])

\* max(word_emission_probs, key=itemgetter(1)): the first maximal entry.
RECURSIVE MaxEmissionFrom(_, _, _)
MaxEmissionFrom(nodes, i, best) ==
  IF i > Len(nodes) THEN best
  ELSE MaxEmissionFrom(nodes, i + 1,
         IF RatGreater(nodes[i][2], best[2]) THEN nodes[i] ELSE best)
MaxEmission(nodes) == MaxEmissionFrom(nodes, 2, nodes[1])

\* _argmax_emission: the rows are visited in the order estimate_emission
\* inserted them, which is the order of self.states.
ArgmaxEmission(word) ==
  LET word_emission_probs ==
        [i \in 1..Len(states) |-> <<states[i], Get(emission_probs[states[i]], word, Zero)>>]
  IN  MaxEmission(word_emission_probs)[1]

RECURSIVE NaiveLabelFrom(_, _, _)
NaiveLabelFrom(seq, i, labelled) ==
  IF i > Len(seq) THEN labelled
  ELSE IF seq[i][2] \in Range(end_states) THEN NaiveLabelFrom(seq, i + 1, labelled)
  ELSE NaiveLabelFrom(seq, i + 1,
         Append(labelled, <<seq[i][1], ArgmaxEmission(seq[i][1])>>))

\* naive_label_sequence: what it raised and the deque it returns.
NaiveLabelSequence(seq) ==
  IF DOMAIN emission_probs = {}
    THEN [raised |-> "Emission probabilities is empty", prediction |-> <<>>]
  ELSE [raised |-> "none",
        prediction |-> Append(NaiveLabelFrom(seq, 1, <<(<<"", end_states[1]>>)>>),
                              <<"", end_states[2]>>)]

\* ---------------------------------------------------------- Viterbi scores
\* A score is an exact rational: zero, or the product of the primes to the
\* exponents given.
LargestFactor ==
  IF MaxCorpusTokens + smooth_k > 5 THEN MaxCorpusTokens + smooth_k ELSE 5
Primes == {p \in 2..LargestFactor : \A q \in 2..(p - 1) : p % q # 0}

RECURSIVE Multiplicity(_, _)
Multiplicity(p, n) == IF n % p = 0 THEN 1 + Multiplicity(p, n \div p) ELSE 0

RECURSIVE Power(_, _)
Power(p, e) == IF e <= 0 THEN 1 ELSE p * Power(p, e - 1)

RECURSIVE PowerProduct(_, _)
PowerProduct(exp, ps) ==
  IF ps = {} THEN 1
  ELSE LET p == CHOOSE x \in ps : TRUE
       IN  Power(p, exp[p]) * PowerProduct(exp, ps \ {p})

ScoreZero == [zero |-> TRUE, exp |-> [p \in Primes |-> 0]]
ScoreOne == [zero |-> FALSE, exp |-> [p \in Primes |-> 0]]
ScoreOfInt(n) ==
  IF n = 0 THEN ScoreZero
  ELSE [zero |-> FALSE, exp |-> [p \in Primes |-> Multiplicity(p, n)]]
ScoreOf(r) ==
  IF r.num = 0 THEN ScoreZero
  ELSE [zero |-> FALSE,
        exp |-> [p \in Primes |-> Multiplicity(p, r.num) - Multiplicity(p, r.den)]]
Times(a, b) ==
  IF a.zero \/ b.zero THEN ScoreZero
  ELSE [zero |-> FALSE, exp |-> [p \in Primes |-> a.exp[p] + b.exp[p]]]
\* a > b
ScoreGreater(a, b) ==
  IF a.zero THEN FALSE
  ELSE IF b.zero THEN TRUE
  ELSE PowerProduct([p \in Primes |-> a.exp[p] - b.exp[p]], Primes)
         > PowerProduct([p \in Primes |-> b.exp[p] - a.exp[p]], Primes)

\* --------------------------------------------------------------- _dp_helper
\* sequence[i] of the source: 0-based, a negative index counts from the end.
PyIndexOK(seq, i) == -Len(seq) <= i /\ i < Len(seq)
PyItem(seq, i) == seq[IF i < 0 THEN Len(seq) + i + 1 ELSE i + 1]

\* _process_unknown_word
ProcessUnknownWord(word) ==
  IF word \in DOMAIN training_words THEN word ELSE UNKNOWN_TOKEN

\* Mutant: the upper end of the range test off by one.
InvalidIterationLoose(iteration, seq) ==
  iteration < 1 \/ iteration > Len(seq)

\* The range test on the time step.
InvalidIteration(iteration, seq) ==
  iteration < 1 \/ iteration >= Len(seq)

\* The membership test on the state.
InvalidState(curr_state) ==
  curr_state \notin Range(states \o <<end_states[2]>>)

\* Mutant: a product is rescaled only while it is still below 1.
DpProdRescaleSmall(prev_optimal_prob, alpha, beta, scaling) ==
  LET prod == Times(Times(prev_optimal_prob, ScoreOf(alpha)), ScoreOf(beta))
  IN  IF ScoreGreater(ScoreOne, prod) THEN Times(prod, ScoreOfInt(scaling)) ELSE prod

\* prev_optimal_prob * alpha * beta * scaling_constant
DpProd(prev_optimal_prob, alpha, beta, scaling) ==
  Times(Times(Times(prev_optimal_prob, ScoreOf(alpha)), ScoreOf(beta)),
        ScoreOfInt(scaling))

\* Mutant: the first candidate, whatever its score.
FirstNode(nodes) == nodes[1]

\* max(temp_nodes, key=itemgetter(1)): the first maximal candidate.
RECURSIVE MaxNodeFrom(_, _, _)
MaxNodeFrom(nodes, i, best) ==
  IF i > Len(nodes) THEN best
  ELSE MaxNodeFrom(nodes, i + 1,
         IF ScoreGreater(nodes[i][2], best[2]) THEN nodes[i] ELSE best)
MaxNode(nodes) == MaxNodeFrom(nodes, 2, nodes[1])

\* _dp_helper(iteration, curr_state, sequence, viterbi_graph,
\* scaling_constant): what it raised and the graph as it leaves it.
DpHelper(iteration, curr_state, seq, graph, scaling) ==
  LET fail(e) == [raised |-> e, viterbi_graph |-> graph]
      start == end_states[1]
      final == iteration = Len(seq) - 1
  IN
  IF InvalidIteration(iteration, seq) THEN fail("Invalid iteration")
  ELSE IF InvalidState(curr_state) THEN fail("Invalid state")
  ELSE IF ~PyIndexOK(seq, iteration) THEN fail("IndexError")
  ELSE
    LET word == ProcessUnknownWord(PyItem(seq, iteration)[1])
    IN
    IF iteration = 1 THEN
      \* Base case
      IF start \notin DOMAIN transition_probs
           \/ curr_state \notin DOMAIN emission_probs
           \/ iteration \notin DOMAIN graph
        THEN fail("KeyError")
      ELSE
        LET alpha == GetTransitionProbability(start, curr_state)
            beta == GetEmissionProbability(curr_state, word)
        IN  [raised |-> "none",
             viterbi_graph |->
               [graph EXCEPT ![iteration] =
                  Put(@, curr_state, <<start, DpProd(ScoreOne, alpha, beta, scaling)>>)]]
    ELSE
      \* Forward recursion
      IF \/ (iteration - 1) \notin DOMAIN graph
         \/ iteration \notin DOMAIN graph
         \/ \E prev_state \in Range(states) :
              \/ prev_state \notin DOMAIN graph[iteration - 1]
              \/ prev_state \notin DOMAIN transition_probs
         \/ (~final /\ curr_state \notin DOMAIN emission_probs)
        THEN fail("KeyError")
      ELSE
        LET beta == IF final THEN One ELSE GetEmissionProbability(curr_state, word)
            temp_nodes ==
              [i \in 1..Len(states) |->
                 <<states[i],
                   DpProd(graph[iteration - 1][states[i]][2],
                          GetTransitionProbability(states[i], curr_state),
                          beta, scaling)>>]
        IN  [raised |-> "none",
             viterbi_graph |->
               [graph EXCEPT ![iteration] = Put(@, curr_state, MaxNode(temp_nodes))]]

\* ------------------------------------------------------------------ viterbi
\* The inner loop of viterbi over self.states, from the k-th state on.
RECURSIVE ViterbiStates(_, _, _, _, _)
ViterbiStates(acc, seq, scaling, iteration, k) ==
  IF k > Len(states) \/ acc.raised # "none" THEN acc
  ELSE ViterbiStates(DpHelper(iteration, states[k], seq, acc.viterbi_graph, scaling),
                     seq, scaling, iteration, k + 1)

\* The loop of viterbi over the iterations, from iteration on.
RECURSIVE ViterbiLoop(_, _, _, _)
ViterbiLoop(acc, seq, scaling, iteration) ==
  IF iteration >= Len(seq) \/ acc.raised # "none" THEN acc
  ELSE IF iteration = Len(seq) - 1
    THEN ViterbiLoop(DpHelper(iteration, end_states[2], seq, acc.viterbi_graph, scaling),
                     seq, scaling, iteration + 1)
  ELSE ViterbiLoop(ViterbiStates(acc, seq, scaling, iteration, 1),
                   seq, scaling, iteration + 1)

\* viterbi(sequence, scaling_constant): what it raised and the graph built.
Viterbi(seq, scaling) ==
  LET chk == CheckEndStates(seq)
  IN  IF chk # "none" THEN [raised |-> chk, viterbi_graph |-> EmptyDict]
      ELSE ViterbiLoop([raised |-> "none",
                        viterbi_graph |-> [i \in 1..(Len(seq) - 1) |-> EmptyDict]],
                       seq, scaling, 1)

\* The loop of viterbi_predict that follows the stored predecessors, from
\* (0-based) position i down to 0.
RECURSIVE BacktraceFrom(_, _, _, _)
BacktraceFrom(seq, graph, i, labelled_sequence) ==
  IF i < 0 THEN labelled_sequence
  ELSE LET word == seq[i + 1][1]
           child_state == labelled_sequence[1][2]
           optimal_node == graph[i + 1][child_state]
           optimal_state == optimal_node[1]
       IN  BacktraceFrom(seq, graph, i - 1,
                         <<(<<word, optimal_state>>)>> \o labelled_sequence)

Backtrace(seq, graph) ==
  BacktraceFrom(seq, graph, Len(seq) - 2, <<(<<"", end_states[2]>>)>>)

\* ------------------------------------------------ main-flow specification
\* main(): construct, train on one file, then decode.  A test file is taken
\* one sentence at a time: the decoders handle each sequence on its own.
MainLines == {"x"} \X Range(states)
TestWords == {"x", "z"}
TestSentences == UNION {Sentences(TestWords, n) : n \in 1..MaxSeqLen}
ScalingConstants == {1, DefaultScaling, 1000000}

TrainMain ==
  /\ pc = "constructed"
  /\ TrainOnSomeFile(MainLines, MaxCorpusTokens)
  /\ pc' = IF raised' = "none" THEN "trained" ELSE "failed"
  /\ UNCHANGED <<decode_vars, before>>

\* viterbi on one sequence with the given scaling constant, then the
\* backtrace of viterbi_predict.
ViterbiOn(sentence, scaling) ==
  LET seq == ProcessFile(<<sentence>>, "test")[1]
      v == Viterbi(seq, scaling)
  IN  /\ sequence' = seq
      /\ scaling_constant' = scaling
      /\ raised' = v.raised
      /\ viterbi_graph' = v.viterbi_graph
      /\ prediction' = IF v.raised = "none" THEN Backtrace(seq, v.viterbi_graph) ELSE <<>>
      /\ pc' = "viterbi"
      /\ UNCHANGED <<model_vars, observations, dp_call, before>>

ViterbiPredict ==
  /\ pc = "trained"
  /\ \E sentence \in TestSentences : \E scaling \in ScalingConstants :
       ViterbiOn(sentence, scaling)

NaivePredict ==
  /\ pc = "trained"
  /\ \E sentence \in TestSentences :
       LET seq == ProcessFile(<<sentence>>, "test")[1]
           r == NaiveLabelSequence(seq)
       IN  /\ sequence' = seq
           /\ raised' = r.raised
           /\ prediction' = r.prediction
  /\ pc' = "naive"
  /\ UNCHANGED <<model_vars, observations, scaling_constant, viterbi_graph,
                 dp_call, before>>

Next == TrainMain \/ ViterbiPredict \/ NaivePredict

Spec == Init /\ [][Next]_vars

\* ------------------------------------------- Viterbi-step specification
\* Train, build the graph of one sequence, then call _dp_helper on that
\* graph with any time step and any state.
DpLines == {"x"} \X Range(states)
DpIterations == -1..(MaxSeqLen + 3)
DpStates == Range(ConstructorStates) \cup {"Z"}

TrainDp ==
  /\ pc = "constructed"
  /\ TrainOnSomeFile(DpLines, MaxCorpusTokens)
  /\ pc' = IF raised' = "none" THEN "trained" ELSE "failed"
  /\ UNCHANGED <<decode_vars, before>>

ViterbiDp ==
  /\ pc = "trained"
  /\ \E sentence \in TestSentences : ViterbiOn(sentence, DefaultScaling)

DpHelperCall ==
  /\ pc = "viterbi"
  /\ \E iteration \in DpIterations : \E curr_state \in DpStates :
       LET r == DpHelper(iteration, curr_state, sequence, viterbi_graph,
                         scaling_constant)
       IN  /\ iteration <= Len(sequence) + 1
           /\ dp_call' = <<iteration, curr_state>>
           /\ raised' = r.raised
           /\ viterbi_graph' = r.viterbi_graph
  /\ pc' = "dp"
  /\ UNCHANGED <<model_vars, observations, sequence, scaling_constant,
                 prediction, before>>

NextDp == TrainDp \/ ViterbiDp \/ DpHelperCall

SpecDp == Init /\ [][NextDp]_vars

\* ------------------------------------------------ what a corpus contains
\* The positions between the START and STOP sentinels of deque j.
Interior(obs, j) == 2..(Len(obs[j]) - 1)
\* Every label between the sentinels is a declared tag.
LabelsAreTags(obs) ==
  \A j \in DOMAIN obs : \A i \in Interior(obs, j) : obs[j][i][2] \in Range(states)
\* The number of times word occurs in the corpus under state.
OccurrencesUnder(obs, state, word) ==
  Cardinality({p \in UNION {{<<j, i>> : i \in Interior(obs, j)} : j \in DOMAIN obs} :
                 obs[p[1]][p[2]] = <<word, state>>})
\* s1 is directly followed by s2 somewhere in the corpus.
Adjacent(obs, s1, s2) ==
  \E j \in DOMAIN obs : \E i \in 2..Len(obs[j]) :
     obs[j][i - 1][2] = s1 /\ obs[j][i][2] = s2
CorpusWords(obs) ==
  UNION {{obs[j][i][1] : i \in Interior(obs, j)} : j \in DOMAIN obs}

\* ==================================================== training: the claims
ProbeWords == {"x", UNKNOWN_TOKEN, "z"}
RowSum(row) == RatSumOver(row, DOMAIN row)

\* C2: after emission estimation on a corpus whose labels are all declared
\* tags (any strings as tokens), the probabilities stored in every tag's row,
\* the UNKNOWN_TOKEN entry included, sum to exactly 1.
C2_EmissionRowsSumToOne ==
  (pc = "trained" /\ LabelsAreTags(observations)) =>
     \A s \in Range(states) : RatEq(RowSum(emission_probs[s]), One)

C4_EmissionLookupCases ==
  (pc = "trained" /\ LabelsAreTags(observations)) =>
     \A s \in Range(states) : \A w \in ProbeWords :
        LET under == OccurrencesUnder(observations, s, w)
            total == SumOver([t \in ProbeWords |-> OccurrencesUnder(observations, s, t)],
                             ProbeWords)
            got == GetEmissionProbability(s, w)
        IN  IF w \notin CorpusWords(observations)
              THEN RatEq(got, [num |-> smooth_k, den |-> total + smooth_k])
            ELSE IF under = 0 THEN RatEq(got, Zero)
            ELSE RatEq(got, [num |-> under, den |-> total + smooth_k])

\* C5: a training corpus with a label between the sentinels that is no
\* declared tag makes train fail with the invalid-state error.
C5_UndeclaredLabelRejected ==
  (pc # "constructed" /\ ~LabelsAreTags(observations)) =>
     raised = "Invalid state in data"

\* ================================================= train twice: the claims
\* Two tables hold the same keys and the same probabilities.
SameTable(t1, t2) ==
  /\ DOMAIN t1 = DOMAIN t2
  /\ \A s \in DOMAIN t1 :
       /\ DOMAIN t1[s] = DOMAIN t2[s]
       /\ \A k \in DOMAIN t1[s] : RatEq(t1[s][k], t2[s][k])

\* C8: train called twice in succession on the same corpus leaves, after the
\* second call, the emission and transition tables of the first call.
C8_RetrainSameCorpusSameTables ==
  (pc = "retrained" /\ before.raised = "none"
     /\ before.observations = observations) =>
     /\ SameTable(emission_probs, before.emission_probs)
     /\ SameTable(transition_probs, before.transition_probs)

\* C8 witness: the second call on the same corpus has returned, and the
\* corpus gives one tag two words and one tag two successors.
C8_Witness ==
  /\ pc = "retrained"
  /\ before.raised = "none"
  /\ before.observations = observations
  /\ \E s \in Range(states) :
       /\ Cardinality(DOMAIN emission_probs[s]) >= 3
       /\ Cardinality(DOMAIN transition_probs[s]) >= 2

\* The corpus the current emission table was estimated from (none when no
\* train call has returned yet).
TableCorpus ==
  IF raised = "none" THEN observations
  ELSE IF pc = "refailed" /\ before.raised = "none" THEN before.observations
  ELSE <<>>
OccurrencesOf(obs, word) ==
  Cardinality({p \in UNION {{<<j, i>> : i \in Interior(obs, j)} : j \in DOMAIN obs} :
                 obs[p[1]][p[2]][1] = word})

\* C10: after any train calls on one instance, a token is in the vocabulary
\* exactly when the current emission table holds it under some tag, and its
\* vocabulary count is its number of occurrences in the corpus the current
\* tables were estimated from.
C10_VocabularyMatchesTables ==
  pc # "constructed" =>
     \A w \in {"x", "y"} :
        /\ w \in DOMAIN training_words <=>
             \E s \in DOMAIN emission_probs : w \in DOMAIN emission_probs[s]
        /\ w \in DOMAIN training_words =>
             training_words[w] = OccurrencesOf(TableCorpus, w)

\* ====================================================== decoding: the claims
\* The tokens and the labels of a labelled sequence, sentinels left out.
TokensOf(seq) == [i \in 1..(Len(seq) - 2) |-> seq[i + 1][1]]
LabelsOf(labelled) == [i \in 1..(Len(labelled) - 2) |-> labelled[i + 1][2]]

\* P(s emits token), a token absent from the vocabulary read as UNKNOWN.
EmissionOf(s, token) ==
  LET w == IF token \in DOMAIN training_words THEN token ELSE UNKNOWN_TOKEN
  IN  IF w \in DOMAIN emission_probs[s] THEN emission_probs[s][w] ELSE Zero
TransitionOf(s1, s2) ==
  IF s2 \in DOMAIN transition_probs[s1] THEN transition_probs[s1][s2] ELSE Zero

RECURSIVE JointFrom(_, _, _)
JointFrom(path, tokens, i) ==
  IF i > Len(path) THEN ScoreOf(TransitionOf(path[Len(path)], end_states[2]))
  ELSE Times(Times(ScoreOf(TransitionOf(IF i = 1 THEN end_states[1] ELSE path[i - 1],
                                        path[i])),
                   ScoreOf(EmissionOf(path[i], tokens[i]))),
             JointFrom(path, tokens, i + 1))
\* P(START->s_1) * prod P(s_i emits token_i) * prod P(s_i->s_i+1) * P(s_n->STOP)
JointProbability(path, tokens) == JointFrom(path, tokens, 1)

Paths(n) == [1..n -> Range(states)]

\* C1: on a trained model and a sequence of n >= 1 tokens, Viterbi decoding
\* returns START, s_1..s_n, STOP with every s_i a tag, the tokens in place,
\* and a joint probability that no tag sequence of length n exceeds.
C1_ViterbiPathIsMostProbable ==
  pc = "viterbi" =>
     LET n == Len(sequence) - 2
         tokens == TokensOf(sequence)
         path == LabelsOf(prediction)
         best == JointProbability(path, tokens)
     IN  /\ raised = "none"
         /\ Len(prediction) = Len(sequence)
         /\ prediction[1] = <<"", end_states[1]>>
         /\ prediction[Len(prediction)] = <<"", end_states[2]>>
         /\ \A i \in 1..n : prediction[i + 1][1] = tokens[i] /\ path[i] \in Range(states)
         /\ \A other \in Paths(n) :
              ~ScoreGreater(JointProbability(other, tokens), best)

\* C1 witness: a two-token sequence decoded to a path of positive probability
\* that starts with the second tag, while another path is possible but less
\* probable.
C1_Witness ==
  /\ pc = "viterbi"
  /\ Len(sequence) = 4
  /\ LabelsOf(prediction)[1] = states[2]
  /\ ~JointProbability(LabelsOf(prediction), TokensOf(sequence)).zero
  /\ \E other \in Paths(2) :
       /\ ~JointProbability(other, TokensOf(sequence)).zero
       /\ ScoreGreater(JointProbability(LabelsOf(prediction), TokensOf(sequence)),
                       JointProbability(other, TokensOf(sequence)))

\* The predecessors a graph stores, scores left out.
Backpointers(graph) ==
  [i \in DOMAIN graph |-> [s \in DOMAIN graph[i] |-> graph[i][s][1]]]

\* C7: the backpointers viterbi stores for a sequence, and the labels the
\* backtrace reads from them, are the same for every scaling constant
\* (1, 100 and 10^6), the scores being exact.
C7_BackpointersIgnoreScaling ==
  pc = "viterbi" =>
     \A c \in ScalingConstants :
        LET v == Viterbi(sequence, c)
        IN  /\ v.raised = "none"
            /\ Backpointers(v.viterbi_graph) = Backpointers(viterbi_graph)
            /\ Backtrace(sequence, v.viterbi_graph) = prediction

\* C7 witness: a graph built with the scaling constant 10^6 for two tokens,
\* its final score positive and one of its backpointers the second tag.
C7_Witness ==
  /\ pc = "viterbi"
  /\ scaling_constant = 1000000
  /\ Len(sequence) = 4
  /\ ~viterbi_graph[3][end_states[2]][2].zero
  /\ \E s \in Range(states) : viterbi_graph[2][s][1] = states[2]

\* The probability stored for exactly this token under s, 0 when s has none.
StoredFor(s, token) ==
  IF token \in DOMAIN emission_probs[s] THEN emission_probs[s][token] ELSE Zero

\* C9: the naive decoder gives every token the first tag, in the order of the
\* model's tags, whose stored probability for exactly that token is maximal,
\* a tag without an entry counting as 0 and no UNKNOWN rerouting; a token
\* with an entry under no tag gets the first tag.
C9_NaivePicksFirstMaximalTag ==
  pc = "naive" =>
     /\ raised = "none"
     /\ Len(prediction) = Len(sequence)
     /\ prediction[1] = <<"", end_states[1]>>
     /\ prediction[Len(prediction)] = <<"", end_states[2]>>
     /\ \A i \in 2..(Len(sequence) - 1) :
          LET token == sequence[i][1]
              label == prediction[i][2]
          IN  /\ prediction[i][1] = token
              /\ \E k \in 1..Len(states) :
                   /\ label = states[k]
                   /\ \A m \in 1..Len(states) :
                        ~RatGreater(StoredFor(states[m], token), StoredFor(label, token))
                   /\ \A m \in 1..(k - 1) :
                        RatGreater(StoredFor(label, token), StoredFor(states[m], token))
              /\ (\A s \in Range(states) : token \notin DOMAIN emission_probs[s])
                   => label = states[1]

\* C9 witness: one decoded sequence with a token stored under no tag, which
\* got the first tag, and a token whose maximum is at the second tag.
C9_Witness ==
  /\ pc = "naive"
  /\ \E i \in 2..(Len(sequence) - 1) :
       /\ \A s \in Range(states) : sequence[i][1] \notin DOMAIN emission_probs[s]
       /\ prediction[i][2] = states[1]
  /\ \E i \in 2..(Len(sequence) - 1) :
       /\ prediction[i][2] = states[2]
       /\ RatGreater(StoredFor(states[2], sequence[i][1]),
                     StoredFor(states[1], sequence[i][1]))

\* ================================================= Viterbi step: the claims
ArgumentErrors == {"Invalid iteration", "Invalid state"}

\* C6 as stated: _dp_helper on a sequence of length L signals an
\* invalid-argument error whenever the time step is outside [1, L-1) or the
\* state is neither a tag nor STOP.
C6_RejectsOutsideHalfOpenRange ==
  pc = "dp" =>
     LET iteration == dp_call[1]
         curr_state == dp_call[2]
     IN  (iteration < 1 \/ iteration >= Len(sequence) - 1
            \/ curr_state \notin Range(states) \cup {end_states[2]})
           => raised \in ArgumentErrors

\* C6 amended: _dp_helper on a sequence of length L signals an
\* invalid-argument error whenever the time step is outside [1, L-1], that is
\* below 1 or at least L, or the state is neither a tag nor STOP; the final
\* step L-1 is accepted.
C6_RejectsOutsideClosedRange ==
  pc = "dp" =>
     LET iteration == dp_call[1]
         curr_state == dp_call[2]
     IN  /\ (iteration < 1 \/ iteration >= Len(sequence)) => raised = "Invalid iteration"
         /\ (1 <= iteration /\ iteration < Len(sequence)
               /\ curr_state \notin Range(states) \cup {end_states[2]})
              => raised = "Invalid state"
         /\ (1 <= iteration /\ iteration < Len(sequence)
               /\ curr_state \in Range(states) \cup {end_states[2]})
              => raised \notin ArgumentErrors

\* C6 witness: a direct call with the time step L and the state STOP, which
\* raised the invalid-iteration error.
C6_Witness ==
  /\ pc = "dp"
  /\ dp_call[1] = Len(sequence)
  /\ dp_call[2] = end_states[2]
  /\ raised = "Invalid iteration"

====
